---- MODULE Spec2Model ----
(***************************************************************************)
(* Typestate builder of a BlackHole record                                 *)
(* (src/4-state-machine/src/universe/mod.rs).                              *)
(*                                                                         *)
(* The caller holds one builder value.  Every method that takes `self` by  *)
(* value moves the builder into the call; the methods that return a        *)
(* builder hand a new one back, `build` returns the wrapped record and     *)
(* leaves the caller without a builder.  `build_copy` takes `&self`.       *)
(* The stage marker of the builder's type decides which impl block, and    *)
(* hence which methods, exist for the value the caller holds.              *)
(***************************************************************************)
EXTENDS Integers, Sequences, FiniteSets, TLC

\* ---------------------------------------------------------------- bounds
\* Number of optional-setter and build_copy calls of one session.
MaxOptionalCalls == 4

\* ------------------------------------------------------------- constants
INITIAL_NAME == "Unknown"
DEFAULT_DISCOVERED_YEAR == 2017

\* enum Type
Type == {"SuperMassive", "IntermediateMassive", "Stellar", "Micro"}

\* Option<T>
None == <<>>
Some(v) == <<v>>

\* The stage markers, in declaration order.
States == <<"NameBuilder", "DiscoveredByBuilder", "YearOfDiscoveryBuilder",
            "OptionalParamsBuilder">>

\* impl From<..> with a conversion that skips a stage added.
FromImpls_with_skip ==
    { <<"NameBuilder", "DiscoveredByBuilder">>,
      <<"DiscoveredByBuilder", "YearOfDiscoveryBuilder">>,
      <<"YearOfDiscoveryBuilder", "OptionalParamsBuilder">>,
      <<"NameBuilder", "YearOfDiscoveryBuilder">> }

\* impl From<T> for X: the pairs <<T, X>> for which the conversion exists.
FromImpls == { <<"NameBuilder", "DiscoveredByBuilder">>,
               <<"DiscoveredByBuilder", "YearOfDiscoveryBuilder">>,
               <<"YearOfDiscoveryBuilder", "OptionalParamsBuilder">> }

\* The fields of struct BlackHole.
MandatoryFields == {"name", "discovered_by", "year_of_discovery"}
OptionalFields == {"mass", "angular_momentum", "electric_charge",
                   "classification"}
Fields == MandatoryFields \cup OptionalFields

\* ---------------------------------------------------- argument domains
NameArgs == {"Gargantua", "Cygnus X-1"}
DiscoveredByArgs == {"Dr. Mann", "Bolton"}
YearArgs == {2400, 1971}
\* f64 values are abstract: they are only stored, copied and compared for
\* being the same value.
F64Args == {1, 2}
TypeArgs == {"SuperMassive", "Stellar"}

VARIABLES
    builder,    \* the BlackHoleBuilder<S> value: [black_hole, state]
    live,       \* TRUE while the caller owns the builder (not moved out)
    snapshots,  \* the records returned by build_copy, in call order
    built,      \* Some(record returned by build), None before
    calls       \* history: the calls made so far, [op, arg]

vars == <<builder, live, snapshots, built, calls>>

\* --------------------------------------------------- history operators

Last(s) == s[Len(s)]

\* The positions of the calls of op.
CallIdx(op) == {i \in 1..Len(calls) : calls[i].op = op}

Max(S) == CHOOSE m \in S : \A x \in S : x <= m

\* Some(argument of the last call of op), None when op was never called.
LastArg(op) ==
    IF CallIdx(op) = {} THEN None ELSE Some(calls[Max(CallIdx(op))].arg)

\* The number of build_copy calls among the first i calls: the position in
\* snapshots of the record returned by a build_copy made as call i.
SnapIdx(i) == Cardinality({j \in 1..i : calls[j].op = "build_copy"})

MandatoryOrder == <<"name", "discovered_by", "year_of_discovery">>

\* The position of a stage marker in States.
Rank(state) == CHOOSE i \in 1..Len(States) : States[i] = state

\* ------------------------------------------------------ pure functions

\* BlackHoleBuilder<T>::transition<X>
transition(self, state) ==
    [black_hole |-> self.black_hole, state |-> state]

\* The bound X: State + From<T> of transition<X> on BlackHoleBuilder<T>:
\* X is a stage marker and From<T> is implemented for X, by one of the impls
\* of this module or by the reflexive impl<T> From<T> for T of the standard
\* library.
transition_available(T, X) ==
    /\ \E i \in 1..Len(States) : States[i] = X
    /\ (X = T \/ <<T, X>> \in FromImpls)

\* BlackHoleBuilder<NameBuilder>::new
\* new that starts from year 0 instead of the declared default.
new_year_zero ==
    [black_hole |-> [name |-> INITIAL_NAME,
                     discovered_by |-> INITIAL_NAME,
                     year_of_discovery |-> 0,
                     mass |-> None,
                     angular_momentum |-> None,
                     electric_charge |-> None,
                     classification |-> None],
     state |-> "NameBuilder"]

new ==
    [black_hole |-> [name |-> INITIAL_NAME,
                     discovered_by |-> INITIAL_NAME,
                     year_of_discovery |-> DEFAULT_DISCOVERED_YEAR,
                     mass |-> None,
                     angular_momentum |-> None,
                     electric_charge |-> None,
                     classification |-> None],
     state |-> "NameBuilder"]

\* name without the write of the field.
name_not_written(self, n) == transition(self, "DiscoveredByBuilder")

name(self, n) ==
    transition([self EXCEPT !.black_hole.name = n], "DiscoveredByBuilder")

\* discovered_by that hands back a builder of the stage it was called on.
discovered_by_same_stage(self, d) ==
    [self EXCEPT !.black_hole.discovered_by = d]

discovered_by(self, d) ==
    transition([self EXCEPT !.black_hole.discovered_by = d],
               "YearOfDiscoveryBuilder")

\* year_of_discovery without the write of the field.
year_of_discovery_not_written(self, y) ==
    transition(self, "OptionalParamsBuilder")

year_of_discovery(self, y) ==
    transition([self EXCEPT !.black_hole.year_of_discovery = y],
               "OptionalParamsBuilder")

\* mass that also resets electric_charge.
mass_clears_charge(self, m) ==
    [self EXCEPT !.black_hole.mass = Some(m),
                 !.black_hole.electric_charge = None]

\* mass that keeps a value already set.
mass_first_write_wins(self, m) ==
    IF self.black_hole.mass = None
    THEN [self EXCEPT !.black_hole.mass = Some(m)]
    ELSE self

mass(self, m) == [self EXCEPT !.black_hole.mass = Some(m)]

\* angular_momentum that writes the mass as well.
angular_momentum_writes_mass(self, a) ==
    [self EXCEPT !.black_hole.angular_momentum = Some(a),
                 !.black_hole.mass = Some(a)]

angular_momentum(self, a) ==
    [self EXCEPT !.black_hole.angular_momentum = Some(a)]

\* electric_charge that also resets angular_momentum.
electric_charge_clobbers(self, e) ==
    [self EXCEPT !.black_hole.electric_charge = Some(e),
                 !.black_hole.angular_momentum = None]

electric_charge(self, e) ==
    [self EXCEPT !.black_hole.electric_charge = Some(e)]

\* classification without the write of the field.
classification_not_written(self, c) == self

classification(self, c) ==
    [self EXCEPT !.black_hole.classification = Some(c)]

\* build that fails unless a mass was set.
build_requires_mass(self) ==
    IF self.black_hole.mass = None
    THEN [error |-> "mass is missing"]
    ELSE self.black_hole

build(self) == self.black_hole

\* The optional setters in declaration order.
OptionalOrder == <<"mass", "angular_momentum", "electric_charge",
                   "classification">>

\* The argument domain and the method of the optional setter of field f.
OptionalArgs(f) == IF f = "classification" THEN TypeArgs ELSE F64Args

OptionalSetter(f, self, v) ==
    CASE f = "mass" -> mass(self, v)
      [] f = "angular_momentum" -> angular_momentum(self, v)
      [] f = "electric_charge" -> electric_charge(self, v)
      [] f = "classification" -> classification(self, v)

\* build_copy that forgets to copy classification.
build_copy_drops_classification(self) ==
    [name |-> self.black_hole.name,
     discovered_by |-> self.black_hole.discovered_by,
     year_of_discovery |-> self.black_hole.year_of_discovery,
     mass |-> self.black_hole.mass,
     angular_momentum |-> self.black_hole.angular_momentum,
     electric_charge |-> self.black_hole.electric_charge,
     classification |-> None]

build_copy(self) ==
    [name |-> self.black_hole.name,
     discovered_by |-> self.black_hole.discovered_by,
     year_of_discovery |-> self.black_hole.year_of_discovery,
     mass |-> self.black_hole.mass,
     angular_momentum |-> self.black_hole.angular_momentum,
     electric_charge |-> self.black_hole.electric_charge,
     classification |-> self.black_hole.classification]

\* ------------------------------------------------------------- actions

Call(op, arg) == [op |-> op, arg |-> arg]

OptionalCalls ==
    Cardinality({i \in 1..Len(calls) :
                    calls[i].op \in OptionalFields \cup {"build_copy"}})

Init ==
    /\ builder = new
    /\ live = TRUE
    /\ snapshots = <<>>
    /\ built = None
    /\ calls = <<>>

Name ==
    \E n \in NameArgs :
        /\ live
        /\ builder.state = "NameBuilder"
        /\ builder' = name(builder, n)
        /\ calls' = Append(calls, Call("name", n))
        /\ UNCHANGED <<live, snapshots, built>>

DiscoveredBy ==
    \E d \in DiscoveredByArgs :
        /\ live
        /\ builder.state = "DiscoveredByBuilder"
        /\ builder' = discovered_by(builder, d)
        /\ calls' = Append(calls, Call("discovered_by", d))
        /\ UNCHANGED <<live, snapshots, built>>

YearOfDiscovery ==
    \E y \in YearArgs :
        /\ live
        /\ builder.state = "YearOfDiscoveryBuilder"
        /\ builder' = year_of_discovery(builder, y)
        /\ calls' = Append(calls, Call("year_of_discovery", y))
        /\ UNCHANGED <<live, snapshots, built>>

\* mass when a returned snapshot shared the builder's record.
Mass_aliasing_snapshots ==
    \E m \in F64Args :
        /\ live
        /\ builder.state = "OptionalParamsBuilder"
        /\ OptionalCalls < MaxOptionalCalls
        /\ builder' = mass(builder, m)
        /\ snapshots' = [i \in 1..Len(snapshots) |->
                            [snapshots[i] EXCEPT !.mass = Some(m)]]
        /\ calls' = Append(calls, Call("mass", m))
        /\ UNCHANGED <<live, built>>

Mass ==
    \E m \in F64Args :
        /\ live
        /\ builder.state = "OptionalParamsBuilder"
        /\ OptionalCalls < MaxOptionalCalls
        /\ builder' = mass(builder, m)
        /\ calls' = Append(calls, Call("mass", m))
        /\ UNCHANGED <<live, snapshots, built>>

AngularMomentum ==
    \E a \in F64Args :
        /\ live
        /\ builder.state = "OptionalParamsBuilder"
        /\ OptionalCalls < MaxOptionalCalls
        /\ builder' = angular_momentum(builder, a)
        /\ calls' = Append(calls, Call("angular_momentum", a))
        /\ UNCHANGED <<live, snapshots, built>>

ElectricCharge ==
    \E e \in F64Args :
        /\ live
        /\ builder.state = "OptionalParamsBuilder"
        /\ OptionalCalls < MaxOptionalCalls
        /\ builder' = electric_charge(builder, e)
        /\ calls' = Append(calls, Call("electric_charge", e))
        /\ UNCHANGED <<live, snapshots, built>>

Classification ==
    \E c \in TypeArgs :
        /\ live
        /\ builder.state = "OptionalParamsBuilder"
        /\ OptionalCalls < MaxOptionalCalls
        /\ builder' = classification(builder, c)
        /\ calls' = Append(calls, Call("classification", c))
        /\ UNCHANGED <<live, snapshots, built>>

\* build declared in an impl block for every stage.
Build_any_stage ==
    /\ live
    /\ built' = Some(build(builder))
    /\ live' = FALSE
    /\ calls' = Append(calls, Call("build", None))
    /\ UNCHANGED <<builder, snapshots>>

\* build taking &self.
Build_by_reference ==
    /\ live
    /\ builder.state = "OptionalParamsBuilder"
    /\ Cardinality(CallIdx("build")) < 2
    /\ built' = Some(build(builder))
    /\ calls' = Append(calls, Call("build", None))
    /\ UNCHANGED <<builder, live, snapshots>>

\* build that is callable only once a mass was given.
Build_needs_mass ==
    /\ live
    /\ builder.state = "OptionalParamsBuilder"
    /\ builder.black_hole.mass # None
    /\ built' = Some(build(builder))
    /\ live' = FALSE
    /\ calls' = Append(calls, Call("build", None))
    /\ UNCHANGED <<builder, snapshots>>

Build ==
    /\ live
    /\ builder.state = "OptionalParamsBuilder"
    /\ built' = Some(build(builder))
    /\ live' = FALSE
    /\ calls' = Append(calls, Call("build", None))
    /\ UNCHANGED <<builder, snapshots>>

\* build_copy that moves the mass out of the builder (Option::take).
BuildCopy_takes_mass ==
    /\ live
    /\ builder.state = "OptionalParamsBuilder"
    /\ OptionalCalls < MaxOptionalCalls
    /\ snapshots' = Append(snapshots, build_copy(builder))
    /\ builder' = [builder EXCEPT !.black_hole.mass = None]
    /\ calls' = Append(calls, Call("build_copy", None))
    /\ UNCHANGED <<live, built>>

\* build_copy taking self by value.
BuildCopy_consumes ==
    /\ live
    /\ builder.state = "OptionalParamsBuilder"
    /\ OptionalCalls < MaxOptionalCalls
    /\ snapshots' = Append(snapshots, build_copy(builder))
    /\ live' = FALSE
    /\ calls' = Append(calls, Call("build_copy", None))
    /\ UNCHANGED <<builder, built>>

BuildCopy ==
    /\ live
    /\ builder.state = "OptionalParamsBuilder"
    /\ OptionalCalls < MaxOptionalCalls
    /\ snapshots' = Append(snapshots, build_copy(builder))
    /\ calls' = Append(calls, Call("build_copy", None))
    /\ UNCHANGED <<builder, live, built>>

Next ==
    \/ Name
    \/ DiscoveredBy
    \/ YearOfDiscovery
    \/ Mass
    \/ AngularMomentum
    \/ ElectricCharge
    \/ Classification
    \/ Build
    \/ BuildCopy

Spec == Init /\ [][Next]_vars

\* ---------------------------------------------------------------- C1
\* C1: after name(n), discovered_by(d), year_of_discovery(y), any optional
\* setters and build(), the returned record has name = n,
\* discovered_by = d and year_of_discovery = y.
C1_MandatoryFieldsAsSupplied ==
    built # None =>
        /\ Some(built[1].name) = LastArg("name")
        /\ Some(built[1].discovered_by) = LastArg("discovered_by")
        /\ Some(built[1].year_of_discovery) = LastArg("year_of_discovery")

C1_Witness ==
    /\ built # None
    /\ Len(calls) >= 6
    /\ built[1].name = "Cygnus X-1"
    /\ built[1].discovered_by = "Bolton"
    /\ built[1].year_of_discovery = 1971

\* ---------------------------------------------------------------- C2
\* C2: for every subset and ordering, with repetitions, of optional-setter
\* calls, the record returned by build() has each optional field equal to
\* Some(last value passed to its setter) and None when the setter was never
\* called.
C2_OptionalFieldsLastWriteWins ==
    built # None =>
        \A f \in OptionalFields : built[1][f] = LastArg(f)

\* mass was set twice with different values, electric_charge never.
C2_Witness ==
    /\ built # None
    /\ Cardinality(CallIdx("mass")) = 2
    /\ \E i, j \in CallIdx("mass") : calls[i].arg # calls[j].arg
    /\ CallIdx("electric_charge") = {}
    /\ CallIdx("classification") # {}
    /\ built[1].electric_charge = None

\* ---------------------------------------------------------------- C3
\* C3: over every admitted call sequence the mandatory setters are applied
\* exactly once each and in the order name, discovered_by,
\* year_of_discovery: no stage is skipped, none is applied twice, and the
\* builder never returns to an earlier stage (its stage is always the one
\* that follows the mandatory setters applied so far).
C3_MandatoryOnceInOrder ==
    /\ \A i \in 1..Len(calls) :
          IF i <= Len(MandatoryOrder)
          THEN calls[i].op = MandatoryOrder[i]
          ELSE calls[i].op \notin MandatoryFields
    /\ Rank(builder.state) =
          (IF Len(calls) < Len(MandatoryOrder)
           THEN Len(calls) ELSE Len(MandatoryOrder)) + 1

C3_Witness ==
    /\ builder.state = "OptionalParamsBuilder"
    /\ Len(calls) = Len(MandatoryOrder) + MaxOptionalCalls
    /\ \A f \in MandatoryFields : Cardinality(CallIdx(f)) = 1

\* ---------------------------------------------------------------- C4
\* C4: build, build_copy and the four optional setters are called only on
\* a builder at the OptionalParamsBuilder stage, after name, discovered_by
\* and year_of_discovery have all been applied; at each earlier stage the
\* only call made is the transition to the immediately next stage.
C4_TerminalOpsOnlyAtTerminalStage ==
    [][calls' # calls =>
         LET op == Last(calls').op IN
         /\ Len(calls') = Len(calls) + 1
         /\ live
         /\ op \in OptionalFields \cup {"build", "build_copy"} =>
               /\ builder.state = "OptionalParamsBuilder"
               /\ \A f \in MandatoryFields : CallIdx(f) # {}
         /\ builder.state # "OptionalParamsBuilder" =>
               /\ op = MandatoryOrder[Rank(builder.state)]
               /\ builder'.state = States[Rank(builder.state) + 1]
               /\ <<builder.state, builder'.state>> \in FromImpls]_vars

C4_Witness ==
    /\ built # None
    /\ snapshots # <<>>
    /\ \E f \in OptionalFields : CallIdx(f) # {}
    /\ \A f \in MandatoryFields : CallIdx(f) # {}

\* ---------------------------------------------------------------- C5
\* C5: build() consumes the builder: no operation follows a build call, so
\* a builder yields at most one record through build().
C5_BuildConsumesBuilder ==
    /\ \A i \in 1..Len(calls) : calls[i].op = "build" => i = Len(calls)
    /\ Cardinality(CallIdx("build")) <= 1
    /\ built # None <=> CallIdx("build") # {}
    /\ built # None => ~live /\ ~ENABLED Next

C5_Witness ==
    /\ built # None
    /\ ~live
    /\ OptionalCalls < MaxOptionalCalls
    /\ snapshots # <<>>

\* ---------------------------------------------------------------- C6
\* C6: two build_copy() calls on the same terminal-stage builder with no
\* setter call between them return records equal in all seven fields.
C6_ConsecutiveCopiesEqual ==
    \A i \in 1..(Len(calls) - 1) :
        calls[i].op = "build_copy" /\ calls[i + 1].op = "build_copy" =>
            \A f \in Fields :
                snapshots[SnapIdx(i)][f] = snapshots[SnapIdx(i + 1)][f]

\* Two consecutive copies of a builder with some optional fields set and
\* others not.
C6_Witness ==
    /\ Len(calls) >= 2
    /\ Last(calls).op = "build_copy"
    /\ calls[Len(calls) - 1].op = "build_copy"
    /\ Len(snapshots) >= 2
    /\ Last(snapshots).mass # None
    /\ Last(snapshots).classification # None
    /\ Last(snapshots).electric_charge = None

\* ---------------------------------------------------------------- C7
\* C7: build_copy() neither consumes nor changes the builder: after it
\* returns, the builder is still owned, at the terminal stage and with its
\* wrapped record unchanged, and the optional setters, build_copy and build
\* are still callable on it.
C7_BuildCopyLeavesBuilder ==
    /\ [][(calls' # calls /\ Last(calls').op = "build_copy") =>
             /\ builder' = builder
             /\ live' = live
             /\ built' = built]_vars
    /\ [](calls # <<>> /\ Last(calls).op = "build_copy" =>
             /\ live
             /\ builder.state = "OptionalParamsBuilder"
             /\ ENABLED Build
             /\ OptionalCalls < MaxOptionalCalls =>
                   /\ ENABLED Mass
                   /\ ENABLED AngularMomentum
                   /\ ENABLED ElectricCharge
                   /\ ENABLED Classification
                   /\ ENABLED BuildCopy)

\* A copy was taken and a setter, another copy and build followed it.
C7_Witness ==
    /\ built # None
    /\ \E i \in CallIdx("build_copy") :
          /\ i + 2 \in CallIdx("build_copy")
          /\ calls[i + 1].op \in OptionalFields
    /\ Len(snapshots) >= 2
    /\ snapshots[1] # snapshots[2]

\* ---------------------------------------------------------------- C8
\* C8: a record returned by build_copy() is an independent value: no later
\* operation on the builder changes a record returned earlier, and the
\* record returned by build() is the builder's record whatever snapshots
\* were taken before.
C8_ReturnedRecordsIndependent ==
    [][/\ Len(snapshots') >= Len(snapshots)
       /\ \A i \in 1..Len(snapshots) : snapshots'[i] = snapshots[i]
       /\ built # None => built' = built
       /\ (built = None /\ built' # None) =>
             \A f \in Fields : built'[1][f] = builder.black_hole[f]]_vars

\* A snapshot, then a setter that makes the builder differ from it, then
\* build.
C8_Witness ==
    /\ built # None
    /\ snapshots # <<>>
    /\ snapshots[1].mass # built[1].mass
    /\ snapshots[1].classification # built[1].classification

\* ---------------------------------------------------------------- C9
\* C9: for every terminal-stage builder state, build_copy() returns a
\* record field-wise equal to the record build() returns for that state,
\* with the same None for optional fields never set.
C9_CopyEqualsBuild ==
    /\ builder.state = "OptionalParamsBuilder" =>
          \A f \in Fields : build_copy(builder)[f] = build(builder)[f]
    /\ (Len(calls) >= 2 /\ Last(calls).op = "build"
            /\ calls[Len(calls) - 1].op = "build_copy") =>
          \A f \in Fields : Last(snapshots)[f] = built[1][f]

\* build right after build_copy, with set and unset optional fields.
C9_Witness ==
    /\ Len(calls) >= 2
    /\ Last(calls).op = "build"
    /\ calls[Len(calls) - 1].op = "build_copy"
    /\ built[1].angular_momentum # None
    /\ built[1].classification # None
    /\ built[1].mass = None

\* ---------------------------------------------------------------- C10
\* C10: a snapshot, then exactly one optional setter, then a second
\* snapshot: the two snapshots differ at most in the field written by that
\* setter; every other field is identical in both.
C10_SnapshotsDifferOnlyInWrittenField ==
    \A i \in 1..(Len(calls) - 2) :
        (/\ calls[i].op = "build_copy"
         /\ calls[i + 1].op \in OptionalFields
         /\ calls[i + 2].op = "build_copy") =>
            \A f \in Fields \ {calls[i + 1].op} :
                snapshots[SnapIdx(i)][f] = snapshots[SnapIdx(i + 2)][f]

\* The snapshots differ in electric_charge; mass was set before the first.
C10_Witness ==
    /\ Len(calls) >= 3
    /\ Last(calls).op = "build_copy"
    /\ calls[Len(calls) - 1].op = "electric_charge"
    /\ calls[Len(calls) - 2].op = "build_copy"
    /\ Len(snapshots) >= 2
    /\ snapshots[Len(snapshots) - 1].electric_charge = None
    /\ Last(snapshots).electric_charge # None
    /\ Last(snapshots).mass # None

C12_EntryHasSuppliedName ==
    builder.state = "NameBuilder" =>
        /\ LastArg("name") = Some(builder.black_hole.name)
        /\ builder.black_hole.discovered_by = INITIAL_NAME
        /\ builder.black_hole.year_of_discovery = DEFAULT_DISCOVERED_YEAR
        /\ \A f \in OptionalFields : builder.black_hole[f] = None

\* C12 (amended): the entry point takes no value and returns an owned
\* first-stage builder whose record has all three mandatory fields at
\* their placeholders ("Unknown", "Unknown", 2017) and all optional fields
\* absent; the name is supplied by the first transition, name(...).
C12_EntryAllPlaceholders ==
    builder.state = "NameBuilder" =>
        /\ live
        /\ calls = <<>>
        /\ LastArg("name") = None
        /\ builder.black_hole.name = "Unknown"
        /\ builder.black_hole.discovered_by = "Unknown"
        /\ builder.black_hole.year_of_discovery = 2017
        /\ \A f \in OptionalFields : builder.black_hole[f] = None
        /\ DOMAIN builder.black_hole = Fields
        /\ ENABLED Name

\* The builder as BlackHole::new() returned it.
C12_Witness ==
    /\ builder.state = "NameBuilder"
    /\ live
    /\ calls = <<>>
    /\ builder = new

\* ---------------------------------------------------------------- C13
\* C13: a builder at the i-th stage has the first i-1 mandatory fields
\* equal to the values the caller supplied and the remaining mandatory
\* fields at their placeholders ("Unknown", "Unknown", 2017); so every
\* record returned by build or build_copy has the caller's values in all
\* three mandatory fields.
C13_StageInvariant ==
    LET placeholder == [name |-> "Unknown", discovered_by |-> "Unknown",
                        year_of_discovery |-> 2017]
    IN  /\ \A k \in 1..Len(MandatoryOrder) :
              LET f == MandatoryOrder[k] IN
              IF k < Rank(builder.state)
              THEN Some(builder.black_hole[f]) = LastArg(f)
              ELSE /\ builder.black_hole[f] = placeholder[f]
                   /\ LastArg(f) = None
        /\ \A f \in MandatoryFields :
              /\ \A i \in 1..Len(snapshots) : Some(snapshots[i][f]) = LastArg(f)
              /\ built # None => Some(built[1][f]) = LastArg(f)

\* Third stage reached earlier, and records returned by both finalizers.
C13_Witness ==
    /\ built # None
    /\ snapshots # <<>>
    /\ calls[1].arg = "Gargantua"
    /\ calls[2].arg = "Bolton"
    /\ calls[3].arg = 2400
    /\ built[1].year_of_discovery = 2400

\* ---------------------------------------------------------------- C14
\* C14: each mandatory transition changes only its own record field and
\* advances the stage by exactly one; each optional setter changes only its
\* own record field and returns a builder at the same terminal stage; every
\* other field of the wrapped record is unchanged.
C14_SettersChangeOwnFieldOnly ==
    [][(calls' # calls /\ Last(calls').op \in Fields) =>
         LET op == Last(calls').op IN
         /\ \A f \in Fields \ {op} :
               builder'.black_hole[f] = builder.black_hole[f]
         /\ op \in MandatoryFields =>
               /\ builder'.black_hole[op] = Last(calls').arg
               /\ Rank(builder'.state) = Rank(builder.state) + 1
         /\ op \in OptionalFields =>
               /\ builder'.black_hole[op] = Some(Last(calls').arg)
               /\ builder.state = "OptionalParamsBuilder"
               /\ builder'.state = "OptionalParamsBuilder"]_vars

\* All three transitions and two setters have acted; one written field
\* and one untouched field are visible.
C14_Witness ==
    /\ Len(calls) >= 5
    /\ Last(calls).op = "angular_momentum"
    /\ builder.black_hole.angular_momentum = Some(2)
    /\ builder.black_hole.mass = Some(1)
    /\ builder.black_hole.electric_charge = None
    /\ builder.state = "OptionalParamsBuilder"

\* ---------------------------------------------------------------- C15
\* C15: optional setters for different fields commute: for any
\* terminal-stage builder and any two setters of distinct optional fields,
\* applying them in either order yields the same builder and hence the same
\* build() result.
C15_OptionalSettersCommute ==
    (live /\ builder.state = "OptionalParamsBuilder") =>
        \* each unordered pair once: the equation is symmetric in f and g
        \A i, j \in 1..Len(OptionalOrder) :
            i < j =>
                LET f == OptionalOrder[i]
                    g == OptionalOrder[j]
                IN  \A x \in OptionalArgs(f), y \in OptionalArgs(g) :
                        LET fg == OptionalSetter(g, OptionalSetter(f, builder, x), y)
                            gf == OptionalSetter(f, OptionalSetter(g, builder, y), x)
                        IN  fg = gf /\ build(fg) = build(gf)

\* A terminal-stage builder that already holds a charge, after mass and
\* classification were applied to it.
C15_Witness ==
    /\ builder.state = "OptionalParamsBuilder"
    /\ live
    /\ Len(calls) = 6
    /\ calls[4].op = "electric_charge"
    /\ calls[5].op = "mass"
    /\ calls[6].op = "classification"
    /\ builder.black_hole.mass = Some(2)
    /\ builder.black_hole.classification = Some("Stellar")

(***************************************************************************)
(* The typestate builder under                                             *)
(* src/design-patterns/builder/state-machine/src/universe/mod.rs.          *)
(* Same stages and the same session state; build_copy is commented out.    *)
(***************************************************************************)

\* BlackHoleBuilder<NameBuilder>::new
dp_new ==
    [black_hole |-> [name |-> INITIAL_NAME,
                     discovered_by |-> INITIAL_NAME,
                     year_of_discovery |-> DEFAULT_DISCOVERED_YEAR,
                     mass |-> None,
                     angular_momentum |-> None,
                     electric_charge |-> None,
                     classification |-> None],
     state |-> "NameBuilder"]

dp_name(self, n) == transition(self, "DiscoveredByBuilder")

dp_discovered_by(self, d) == transition(self, "YearOfDiscoveryBuilder")

dp_year_of_discovery(self, y) == transition(self, "OptionalParamsBuilder")

dp_mass(self, m) == self

dp_angular_momentum(self, a) == self

dp_electric_charge(self, e) == self

dp_classification(self, c) == self

dp_build(self) == self.black_hole

\* BlackHole::name
dp_BlackHole_name(self) == self.name

\* BlackHole::calc_event_horizon_radius: None without a mass, otherwise
\* Some(2 G M / c^2), kept as a term over the mass.
dp_calc_event_horizon_radius(self) ==
    IF self.mass = None THEN None ELSE Some([rs_of_mass |-> self.mass[1]])

\* Option::unwrap_or
unwrap_or(opt, default) == IF opt = None THEN default ELSE opt[1]

\* What main prints for a built record: the name and the radius.
dp_main_output(black_hole) ==
    [name |-> dp_BlackHole_name(black_hole),
     radius |-> unwrap_or(dp_calc_event_horizon_radius(black_hole), 0)]

DpInit ==
    /\ builder = dp_new
    /\ live = TRUE
    /\ snapshots = <<>>
    /\ built = None
    /\ calls = <<>>

DpName ==
    \E n \in NameArgs :
        /\ live
        /\ builder.state = "NameBuilder"
        /\ builder' = dp_name(builder, n)
        /\ calls' = Append(calls, Call("name", n))
        /\ UNCHANGED <<live, snapshots, built>>

DpDiscoveredBy ==
    \E d \in DiscoveredByArgs :
        /\ live
        /\ builder.state = "DiscoveredByBuilder"
        /\ builder' = dp_discovered_by(builder, d)
        /\ calls' = Append(calls, Call("discovered_by", d))
        /\ UNCHANGED <<live, snapshots, built>>

DpYearOfDiscovery ==
    \E y \in YearArgs :
        /\ live
        /\ builder.state = "YearOfDiscoveryBuilder"
        /\ builder' = dp_year_of_discovery(builder, y)
        /\ calls' = Append(calls, Call("year_of_discovery", y))
        /\ UNCHANGED <<live, snapshots, built>>

DpMass ==
    \E m \in F64Args :
        /\ live
        /\ builder.state = "OptionalParamsBuilder"
        /\ OptionalCalls < MaxOptionalCalls
        /\ builder' = dp_mass(builder, m)
        /\ calls' = Append(calls, Call("mass", m))
        /\ UNCHANGED <<live, snapshots, built>>

DpAngularMomentum ==
    \E a \in F64Args :
        /\ live
        /\ builder.state = "OptionalParamsBuilder"
        /\ OptionalCalls < MaxOptionalCalls
        /\ builder' = dp_angular_momentum(builder, a)
        /\ calls' = Append(calls, Call("angular_momentum", a))
        /\ UNCHANGED <<live, snapshots, built>>

DpElectricCharge ==
    \E e \in F64Args :
        /\ live
        /\ builder.state = "OptionalParamsBuilder"
        /\ OptionalCalls < MaxOptionalCalls
        /\ builder' = dp_electric_charge(builder, e)
        /\ calls' = Append(calls, Call("electric_charge", e))
        /\ UNCHANGED <<live, snapshots, built>>

DpClassification ==
    \E c \in TypeArgs :
        /\ live
        /\ builder.state = "OptionalParamsBuilder"
        /\ OptionalCalls < MaxOptionalCalls
        /\ builder' = dp_classification(builder, c)
        /\ calls' = Append(calls, Call("classification", c))
        /\ UNCHANGED <<live, snapshots, built>>

DpBuild ==
    /\ live
    /\ builder.state = "OptionalParamsBuilder"
    /\ built' = Some(dp_build(builder))
    /\ live' = FALSE
    /\ calls' = Append(calls, Call("build", None))
    /\ UNCHANGED <<builder, snapshots>>

DpNext ==
    \/ DpName
    \/ DpDiscoveredBy
    \/ DpYearOfDiscovery
    \/ DpMass
    \/ DpAngularMomentum
    \/ DpElectricCharge
    \/ DpClassification
    \/ DpBuild

DpSpec == DpInit /\ [][DpNext]_vars

\* ---------------------------------------------------------------- C16
\* C16: in the builder under design-patterns/builder/state-machine every
\* mandatory transition and optional setter writes its argument into the
\* wrapped record: after name(n), discovered_by(d), year_of_discovery(y),
\* mass(m), ... build() the record has name() = n and mass = Some(m), and
\* main prints the supplied name and a radius computed from the supplied
\* mass.
C16_DpSettersWriteArguments ==
    built # None =>
        /\ Some(dp_BlackHole_name(built[1])) = LastArg("name")
        /\ Some(built[1].discovered_by) = LastArg("discovered_by")
        /\ Some(built[1].year_of_discovery) = LastArg("year_of_discovery")
        /\ \A f \in OptionalFields : built[1][f] = LastArg(f)
        /\ CallIdx("mass") # {} =>
              dp_main_output(built[1]) =
                  [name |-> calls[1].arg,
                   radius |-> [rs_of_mass |-> LastArg("mass")[1]]]

\* ---------------------------------------------------------------- C17
\* C17: no operation of the typestate builder has a runtime failure
\* outcome: whenever the caller owns a builder, the operations of its stage
\* can be called, every call made has returned a well-formed builder or
\* record, and no error state is reachable.
C17_NoRuntimeFailure ==
    LET BlackHoles ==
            [name : NameArgs \cup {INITIAL_NAME},
             discovered_by : DiscoveredByArgs \cup {INITIAL_NAME},
             year_of_discovery : YearArgs \cup {DEFAULT_DISCOVERED_YEAR},
             mass : {None} \cup {Some(v) : v \in F64Args},
             angular_momentum : {None} \cup {Some(v) : v \in F64Args},
             electric_charge : {None} \cup {Some(v) : v \in F64Args},
             classification : {None} \cup {Some(t) : t \in Type}]
    IN  /\ DOMAIN builder = {"black_hole", "state"}
        /\ builder.black_hole \in BlackHoles
        /\ \E i \in 1..Len(States) : States[i] = builder.state
        /\ Len(snapshots) = Cardinality(CallIdx("build_copy"))
        /\ \A i \in 1..Len(snapshots) : snapshots[i] \in BlackHoles
        /\ built # None <=> CallIdx("build") # {}
        /\ built # None => Len(built) = 1 /\ built[1] \in BlackHoles
        /\ live <=> built = None
        /\ (live /\ builder.state = "NameBuilder") => ENABLED Name
        /\ (live /\ builder.state = "DiscoveredByBuilder") =>
              ENABLED DiscoveredBy
        /\ (live /\ builder.state = "YearOfDiscoveryBuilder") =>
              ENABLED YearOfDiscovery
        /\ (live /\ builder.state = "OptionalParamsBuilder") =>
              /\ ENABLED Build
              /\ OptionalCalls < MaxOptionalCalls =>
                    /\ ENABLED Mass
                    /\ ENABLED AngularMomentum
                    /\ ENABLED ElectricCharge
                    /\ ENABLED Classification
                    /\ ENABLED BuildCopy

\* Every kind of operation has been called and has returned.
C17_Witness ==
    /\ built # None
    /\ snapshots # <<>>
    /\ CallIdx("classification") # {}
    /\ CallIdx("angular_momentum") # {}
    /\ built[1].mass = None
    /\ Len(calls) = Len(MandatoryOrder) + 4

(***************************************************************************)
(* The simple builder (src/2-simple-builder/src/universe/mod.rs; the same  *)
(* code is in src/design-patterns/builder/simple-builder).                 *)
(* builder is the BlackHoleBuilder struct itself: name and six Option      *)
(* fields.  Every setter takes self by value and an I: Into<Option<T>>.    *)
(***************************************************************************)

\* Number of setter and build_copy calls of one simple-builder session.
MaxSimpleCalls == 3

DEFAULT_DISCOVERED_BY == "Unknown"

\* The fields of the simple BlackHoleBuilder that have a setter.
SbSetters == {"discovered_by", "year_of_discovery", "mass",
              "angular_momentum", "electric_charge", "classification"}

\* An argument of type I: a plain T or an Option<T>.
Plain(v) == [type |-> "T", value |-> v]
Opt(o) == [type |-> "Option", value |-> o]

\* Into<Option<T>>::into: From<T> for Option<T> wraps, Option<T> is itself.
into(x) == IF x.type = "T" THEN Some(x.value) ELSE x.value

\* Arguments of a setter: a plain value, Some of another value, and None.
SbArgs(plain, wrapped) == {Plain(plain), Opt(Some(wrapped)), Opt(None)}

SbArgsOf(f) ==
    CASE f = "discovered_by" -> SbArgs("Dr. Mann", "Bolton")
      [] f = "year_of_discovery" -> SbArgs(2400, 1971)
      [] f = "classification" -> SbArgs("SuperMassive", "Stellar")
      [] OTHER -> SbArgs(1, 2)

\* Clone::clone
clone(v) == v

\* BlackHoleBuilder::new
sb_new(n) ==
    [name |-> n,
     discovered_by |-> None,
     year_of_discovery |-> None,
     mass |-> None,
     angular_momentum |-> None,
     electric_charge |-> None,
     classification |-> None]

\* discovered_by that keeps the stored value when it is given None.
sb_discovered_by_keeps_on_none(self, x) ==
    IF into(x) = None THEN self ELSE [self EXCEPT !.discovered_by = into(x)]

sb_discovered_by(self, x) == [self EXCEPT !.discovered_by = into(x)]

sb_year_of_discovery(self, x) == [self EXCEPT !.year_of_discovery = into(x)]

sb_mass(self, x) == [self EXCEPT !.mass = into(x)]

sb_angular_momentum(self, x) == [self EXCEPT !.angular_momentum = into(x)]

\* electric_charge without the write of the field.
sb_electric_charge_not_written(self, x) == self

sb_electric_charge(self, x) == [self EXCEPT !.electric_charge = into(x)]

sb_classification(self, x) == [self EXCEPT !.classification = into(x)]

\* build that falls back to year 0.
sb_build_year_zero(self) ==
    [name |-> self.name,
     discovered_by |-> unwrap_or(self.discovered_by, DEFAULT_DISCOVERED_BY),
     year_of_discovery |-> unwrap_or(self.year_of_discovery, 0),
     mass |-> self.mass,
     angular_momentum |-> self.angular_momentum,
     electric_charge |-> self.electric_charge,
     classification |-> self.classification]

sb_build(self) ==
    [name |-> self.name,
     discovered_by |-> unwrap_or(self.discovered_by, DEFAULT_DISCOVERED_BY),
     year_of_discovery |->
         unwrap_or(self.year_of_discovery, DEFAULT_DISCOVERED_YEAR),
     mass |-> self.mass,
     angular_momentum |-> self.angular_momentum,
     electric_charge |-> self.electric_charge,
     classification |-> self.classification]

\* build_copy that falls back to an empty string for discovered_by.
sb_build_copy_empty_default(self) ==
    \* self.discovered_by.clone().map_or_else(|| default, |value| value.clone())
    LET cloned == clone(self.discovered_by)
    IN  [name |-> clone(self.name),
         discovered_by |->
             (IF cloned = None THEN "" ELSE clone(cloned[1])),
         year_of_discovery |->
             unwrap_or(self.year_of_discovery, DEFAULT_DISCOVERED_YEAR),
         mass |-> self.mass,
         angular_momentum |-> self.angular_momentum,
         electric_charge |-> self.electric_charge,
         classification |-> clone(self.classification)]

sb_build_copy(self) ==
    \* self.discovered_by.clone().map_or_else(|| default, |value| value.clone())
    LET cloned == clone(self.discovered_by)
    IN  [name |-> clone(self.name),
         discovered_by |->
             (IF cloned = None THEN DEFAULT_DISCOVERED_BY ELSE clone(cloned[1])),
         year_of_discovery |->
             unwrap_or(self.year_of_discovery, DEFAULT_DISCOVERED_YEAR),
         mass |-> self.mass,
         angular_momentum |-> self.angular_momentum,
         electric_charge |-> self.electric_charge,
         classification |-> clone(self.classification)]

\* The setter and build_copy calls made so far.
SbCalls ==
    Cardinality({i \in 1..Len(calls) :
                    calls[i].op \in SbSetters \cup {"build_copy"}})

SbInit ==
    \E n \in NameArgs :
        /\ builder = sb_new(n)
        /\ live = TRUE
        /\ snapshots = <<>>
        /\ built = None
        /\ calls = <<Call("new", n)>>

SbDiscoveredBy ==
    \E x \in SbArgsOf("discovered_by") :
        /\ live
        /\ SbCalls < MaxSimpleCalls
        /\ builder' = sb_discovered_by(builder, x)
        /\ calls' = Append(calls, Call("discovered_by", x))
        /\ UNCHANGED <<live, snapshots, built>>

SbYearOfDiscovery ==
    \E x \in SbArgsOf("year_of_discovery") :
        /\ live
        /\ SbCalls < MaxSimpleCalls
        /\ builder' = sb_year_of_discovery(builder, x)
        /\ calls' = Append(calls, Call("year_of_discovery", x))
        /\ UNCHANGED <<live, snapshots, built>>

SbMass ==
    \E x \in SbArgsOf("mass") :
        /\ live
        /\ SbCalls < MaxSimpleCalls
        /\ builder' = sb_mass(builder, x)
        /\ calls' = Append(calls, Call("mass", x))
        /\ UNCHANGED <<live, snapshots, built>>

SbAngularMomentum ==
    \E x \in SbArgsOf("angular_momentum") :
        /\ live
        /\ SbCalls < MaxSimpleCalls
        /\ builder' = sb_angular_momentum(builder, x)
        /\ calls' = Append(calls, Call("angular_momentum", x))
        /\ UNCHANGED <<live, snapshots, built>>

SbElectricCharge ==
    \E x \in SbArgsOf("electric_charge") :
        /\ live
        /\ SbCalls < MaxSimpleCalls
        /\ builder' = sb_electric_charge(builder, x)
        /\ calls' = Append(calls, Call("electric_charge", x))
        /\ UNCHANGED <<live, snapshots, built>>

SbClassification ==
    \E x \in SbArgsOf("classification") :
        /\ live
        /\ SbCalls < MaxSimpleCalls
        /\ builder' = sb_classification(builder, x)
        /\ calls' = Append(calls, Call("classification", x))
        /\ UNCHANGED <<live, snapshots, built>>

SbBuild ==
    /\ live
    /\ built' = Some(sb_build(builder))
    /\ live' = FALSE
    /\ calls' = Append(calls, Call("build", None))
    /\ UNCHANGED <<builder, snapshots>>

SbBuildCopy ==
    /\ live
    /\ SbCalls < MaxSimpleCalls
    /\ snapshots' = Append(snapshots, sb_build_copy(builder))
    /\ calls' = Append(calls, Call("build_copy", None))
    /\ UNCHANGED <<builder, live, built>>

SbNext ==
    \/ SbDiscoveredBy
    \/ SbYearOfDiscovery
    \/ SbMass
    \/ SbAngularMomentum
    \/ SbElectricCharge
    \/ SbClassification
    \/ SbBuild
    \/ SbBuildCopy

SbSpec == SbInit /\ [][SbNext]_vars

\* The Option a setter's field holds after the calls made so far: the last
\* argument given to the setter, None when it was never called.
SbSupplied(f) ==
    IF CallIdx(f) = {} THEN None
    ELSE LET x == calls[Max(CallIdx(f))].arg
         IN  IF x.type = "T" THEN Some(x.value) ELSE x.value

\* ---------------------------------------------------------------- C18
\* C18: in the simple builder, new(n) followed by setters and build()
\* returns a record holding exactly the supplied values; when discovered_by
\* or year_of_discovery was never set, build() returns
\* discovered_by = "Unknown" and year_of_discovery = 2017.
C18_SimpleBuildReturnsSupplied ==
    built # None =>
        /\ built[1].name = calls[1].arg
        /\ built[1].discovered_by =
              (IF SbSupplied("discovered_by") = None THEN "Unknown"
               ELSE SbSupplied("discovered_by")[1])
        /\ built[1].year_of_discovery =
              (IF SbSupplied("year_of_discovery") = None THEN 2017
               ELSE SbSupplied("year_of_discovery")[1])
        /\ \A f \in OptionalFields : built[1][f] = SbSupplied(f)
        /\ CallIdx("discovered_by") = {} => built[1].discovered_by = "Unknown"
        /\ CallIdx("year_of_discovery") = {} =>
              built[1].year_of_discovery = 2017

\* discovered_by and two optional fields supplied, year_of_discovery never
\* set.
C18_Witness ==
    /\ built # None
    /\ built[1].name = "Gargantua"
    /\ built[1].discovered_by = "Dr. Mann"
    /\ CallIdx("year_of_discovery") = {}
    /\ built[1].year_of_discovery = 2017
    /\ built[1].mass = Some(1)
    /\ built[1].classification = Some("Stellar")
    /\ built[1].electric_charge = None

\* ---------------------------------------------------------------- C19
\* C19: in the simple builder, for every builder state (also with
\* discovered_by or year_of_discovery unset) build_copy() leaves the
\* builder unchanged and returns a record field-wise equal to the one
\* build() returns for that state, so two consecutive build_copy() calls
\* return equal records.
C19_SimpleCopyEqualsBuild ==
    /\ [][(calls' # calls /\ Last(calls').op = "build_copy") =>
             /\ builder' = builder
             /\ live' = live
             /\ Last(snapshots') = sb_build(builder)]_vars
    /\ [](/\ live => \A f \in Fields :
                        sb_build_copy(builder)[f] = sb_build(builder)[f]
          /\ \A i \in 2..(Len(calls) - 1) :
                (calls[i].op = "build_copy"
                    /\ calls[i + 1].op = "build_copy") =>
                    snapshots[SnapIdx(i)] = snapshots[SnapIdx(i + 1)]
          /\ (Last(calls).op = "build"
                    /\ calls[Len(calls) - 1].op = "build_copy") =>
                    Last(snapshots) = built[1])

\* Two consecutive copies and then build, of a builder whose discovered_by
\* and year_of_discovery are unset.
C19_Witness ==
    /\ Len(calls) = 5
    /\ calls[2].op = "mass"
    /\ calls[3].op = "build_copy"
    /\ calls[4].op = "build_copy"
    /\ calls[5].op = "build"
    /\ builder.discovered_by = None
    /\ builder.year_of_discovery = None
    /\ snapshots[2].discovered_by = "Unknown"
    /\ built[1].year_of_discovery = 2017

C21_TransitionOnlyToSuccessor ==
    \A i \in 1..Len(States) :
        /\ transition_available(builder.state, States[i]) <=>
              i = Rank(builder.state) + 1
        /\ transition(builder, States[i]).black_hole = builder.black_hole

\* C21 (amended): transition<X> can be instantiated when X is the
\* immediate successor stage of T or T itself (From<T> for T holds for
\* every type); it is unavailable for an earlier stage and for a
\* non-adjacent later stage, and it carries the wrapped record over
\* unchanged, changing only the stage marker.
C21_TransitionToSuccessorOrSame ==
    \A i \in 1..Len(States) :
        /\ transition_available(builder.state, States[i]) <=>
              (i = Rank(builder.state) \/ i = Rank(builder.state) + 1)
        /\ \A f \in Fields :
              transition(builder, States[i]).black_hole[f] =
                  builder.black_hole[f]
        /\ transition(builder, States[i]).state = States[i]

\* A builder that went through two transitions and holds their values.
C21_Witness ==
    /\ builder.state = "YearOfDiscoveryBuilder"
    /\ builder.black_hole.name = "Cygnus X-1"
    /\ builder.black_hole.discovered_by = "Dr. Mann"
    /\ transition_available("YearOfDiscoveryBuilder", "OptionalParamsBuilder")
    /\ ~transition_available("YearOfDiscoveryBuilder", "NameBuilder")

\* ------------------------------------------------------------------
\* The impl-trait variant (design-patterns/builder/impl-trait): the stages
\* are the static types of the value the caller holds.  builder is
\* [black_hole, type]; the other variables are as before.

\* Number of optional-setter and build_copy calls of one session of the
\* impl-trait variant.
MaxItCalls == 3

UNKNOWN == "Unknown"

\* The static types a caller can hold: the two structs and the two opaque
\* return types.
ItTypes == {"NameBuilder", "impl DiscoveredByBuilder",
            "YearOfDiscoveryBuilder", "impl BlackHoleBuilder"}

\* trait BlackHoleBuilder
BlackHoleBuilderMethods ==
    {"mass", "angular_momentum", "electric_charge", "classification",
     "build", "build_copy"}

\* The methods callable on a value of each static type, with both traits in
\* scope: the inherent methods of a struct and the methods of the traits
\* implemented for it; for an opaque type, the methods of its trait only.
ItMethods(type) ==
    CASE type = "NameBuilder" -> {"name", "discovered_by"}
      [] type = "impl DiscoveredByBuilder" -> {"discovered_by"}
      [] type = "YearOfDiscoveryBuilder" ->
             {"year_of_discovery"} \cup BlackHoleBuilderMethods
      [] type = "impl BlackHoleBuilder" -> BlackHoleBuilderMethods

\* BlackHole::new
it_new ==
    [black_hole |-> [name |-> UNKNOWN,
                     discovered_by |-> UNKNOWN,
                     year_of_discovery |-> DEFAULT_DISCOVERED_YEAR,
                     mass |-> None,
                     angular_momentum |-> None,
                     electric_charge |-> None,
                     classification |-> None],
     type |-> "NameBuilder"]

\* NameBuilder::name
it_name(self, n) ==
    [black_hole |-> [self.black_hole EXCEPT !.name = n],
     type |-> "impl DiscoveredByBuilder"]

\* <NameBuilder as DiscoveredByBuilder>::discovered_by
it_discovered_by(self, d) ==
    [black_hole |-> [self.black_hole EXCEPT !.discovered_by = d],
     type |-> "YearOfDiscoveryBuilder"]

\* YearOfDiscoveryBuilder::year_of_discovery
it_year_of_discovery(self, y) ==
    [black_hole |-> [self.black_hole EXCEPT !.year_of_discovery = y],
     type |-> "impl BlackHoleBuilder"]

\* <YearOfDiscoveryBuilder as BlackHoleBuilder>::mass; the result has the
\* type Self of the receiver.
it_mass(self, m) == [self EXCEPT !.black_hole.mass = Some(m)]

\* angular_momentum that returns the builder as it was.
it_angular_momentum_not_written(self, a) == self

it_angular_momentum(self, a) ==
    [self EXCEPT !.black_hole.angular_momentum = Some(a)]

it_electric_charge(self, e) ==
    [self EXCEPT !.black_hole.electric_charge = Some(e)]

it_classification(self, c) ==
    [self EXCEPT !.black_hole.classification = Some(c)]

it_build(self) == self.black_hole

it_build_copy(self) ==
    [name |-> self.black_hole.name,
     discovered_by |-> self.black_hole.discovered_by,
     year_of_discovery |-> self.black_hole.year_of_discovery,
     mass |-> self.black_hole.mass,
     angular_momentum |-> self.black_hole.angular_momentum,
     electric_charge |-> self.black_hole.electric_charge,
     classification |-> self.black_hole.classification]

ItInit ==
    /\ builder = it_new
    /\ live = TRUE
    /\ snapshots = <<>>
    /\ built = None
    /\ calls = <<>>

ItName ==
    \E n \in NameArgs :
        /\ live
        /\ "name" \in ItMethods(builder.type)
        /\ builder' = it_name(builder, n)
        /\ calls' = Append(calls, Call("name", n))
        /\ UNCHANGED <<live, snapshots, built>>

ItDiscoveredBy ==
    \E d \in DiscoveredByArgs :
        /\ live
        /\ "discovered_by" \in ItMethods(builder.type)
        /\ builder' = it_discovered_by(builder, d)
        /\ calls' = Append(calls, Call("discovered_by", d))
        /\ UNCHANGED <<live, snapshots, built>>

ItYearOfDiscovery ==
    \E y \in YearArgs :
        /\ live
        /\ "year_of_discovery" \in ItMethods(builder.type)
        /\ builder' = it_year_of_discovery(builder, y)
        /\ calls' = Append(calls, Call("year_of_discovery", y))
        /\ UNCHANGED <<live, snapshots, built>>

ItMass ==
    \E m \in F64Args :
        /\ live
        /\ "mass" \in ItMethods(builder.type)
        /\ OptionalCalls < MaxItCalls
        /\ builder' = it_mass(builder, m)
        /\ calls' = Append(calls, Call("mass", m))
        /\ UNCHANGED <<live, snapshots, built>>

ItAngularMomentum ==
    \E a \in F64Args :
        /\ live
        /\ "angular_momentum" \in ItMethods(builder.type)
        /\ OptionalCalls < MaxItCalls
        /\ builder' = it_angular_momentum(builder, a)
        /\ calls' = Append(calls, Call("angular_momentum", a))
        /\ UNCHANGED <<live, snapshots, built>>

ItElectricCharge ==
    \E e \in F64Args :
        /\ live
        /\ "electric_charge" \in ItMethods(builder.type)
        /\ OptionalCalls < MaxItCalls
        /\ builder' = it_electric_charge(builder, e)
        /\ calls' = Append(calls, Call("electric_charge", e))
        /\ UNCHANGED <<live, snapshots, built>>

ItClassification ==
    \E c \in TypeArgs :
        /\ live
        /\ "classification" \in ItMethods(builder.type)
        /\ OptionalCalls < MaxItCalls
        /\ builder' = it_classification(builder, c)
        /\ calls' = Append(calls, Call("classification", c))
        /\ UNCHANGED <<live, snapshots, built>>

ItBuild ==
    /\ live
    /\ "build" \in ItMethods(builder.type)
    /\ built' = Some(it_build(builder))
    /\ live' = FALSE
    /\ calls' = Append(calls, Call("build", None))
    /\ UNCHANGED <<builder, snapshots>>

ItBuildCopy ==
    /\ live
    /\ "build_copy" \in ItMethods(builder.type)
    /\ OptionalCalls < MaxItCalls
    /\ snapshots' = Append(snapshots, it_build_copy(builder))
    /\ calls' = Append(calls, Call("build_copy", None))
    /\ UNCHANGED <<builder, live, built>>

ItNext ==
    \/ ItName
    \/ ItDiscoveredBy
    \/ ItYearOfDiscovery
    \/ ItMass
    \/ ItAngularMomentum
    \/ ItElectricCharge
    \/ ItClassification
    \/ ItBuild
    \/ ItBuildCopy

ItSpec == ItInit /\ [][ItNext]_vars

\* ---------------------------------------------------------------- C22
\* C22: in the impl-trait variant discovered_by is callable only on the
\* value returned by name(..): every discovered_by call has exactly one name
\* call before it, so the name stage cannot be skipped and every built
\* record carries a caller-supplied name.
C22_NameStageNotSkippable ==
    /\ \A i \in CallIdx("discovered_by") :
          Cardinality({j \in CallIdx("name") : j < i}) = 1
    /\ built # None =>
          /\ LastArg("name") # None
          /\ built[1].name = LastArg("name")[1]

\* ---------------------------------------------------------------- C23
\* C23: in the impl-trait variant the optional setters, build and
\* build_copy are callable only on the value returned by
\* year_of_discovery(..): each such call has a year_of_discovery call before
\* it, and no year_of_discovery call has an optional setter before it.
C23_OptionalStageOnlyAfterYear ==
    /\ \A i \in 1..Len(calls) :
          calls[i].op \in BlackHoleBuilderMethods =>
              \E j \in CallIdx("year_of_discovery") : j < i
    /\ \A i \in CallIdx("year_of_discovery") :
          \A j \in 1..(i - 1) : calls[j].op \notin OptionalFields

\* ---------------------------------------------------------------- C24
\* The typestate builder of src/4-state-machine after the calls of log:
\* new(), then each call applied in order; the finalizers leave the builder
\* as it is.
RECURSIVE Replay(_)
Replay(log) ==
    IF log = <<>>
    THEN new
    ELSE LET self == Replay(SubSeq(log, 1, Len(log) - 1))
             call == Last(log)
         IN  CASE call.op = "name" -> name(self, call.arg)
               [] call.op = "discovered_by" -> discovered_by(self, call.arg)
               [] call.op = "year_of_discovery" ->
                      year_of_discovery(self, call.arg)
               [] call.op \in OptionalFields ->
                      OptionalSetter(call.op, self, call.arg)
               [] OTHER -> self

\* The calls so far form a legal chain: name, discovered_by,
\* year_of_discovery in this order, then optional setters and finalizers.
ItLegalChain ==
    /\ Len(calls) >= Len(MandatoryOrder)
    /\ \A i \in 1..Len(calls) :
          IF i <= Len(MandatoryOrder)
          THEN calls[i].op = MandatoryOrder[i]
          ELSE calls[i].op \in BlackHoleBuilderMethods

\* C24: on a legal chain name(n).discovered_by(d).year_of_discovery(y)
\* followed by the same optional setter calls, the impl-trait variant and
\* the typestate builder of src/4-state-machine return field-wise equal
\* records from build() and from each build_copy().
C24_ImplTraitEqualsTypestate ==
    ItLegalChain =>
        /\ Replay(calls).state = "OptionalParamsBuilder"
        /\ built # None =>
              \A f \in Fields : built[1][f] = build(Replay(calls))[f]
        /\ \A i \in CallIdx("build_copy") :
              \A f \in Fields :
                  snapshots[SnapIdx(i)][f] =
                      build_copy(Replay(SubSeq(calls, 1, i)))[f]

\* A legal chain with two optional setters, a copy in between and a build.
C24_Witness ==
    /\ ItLegalChain
    /\ Len(calls) = 7
    /\ calls[4].op = "angular_momentum"
    /\ calls[5].op = "build_copy"
    /\ calls[6].op = "classification"
    /\ built # None
    /\ built[1].name = "Gargantua"
    /\ built[1].angular_momentum = Some(2)
    /\ snapshots[1].classification = None

\* ---------------------------------------------------------------- C25
\* C25: in the simple builder every setter overwrites its field with the
\* argument of the call, None included, and changes no other field: a None
\* given after a value returns the field to unset, so that build() yields
\* the default ("Unknown", 2017) for discovered_by and year_of_discovery
\* and None for the optional fields.
C25_SimpleSettersOverwrite ==
    /\ [][(calls' # calls /\ Last(calls').op \in SbSetters) =>
            LET f == Last(calls').op
                x == Last(calls').arg
            IN  /\ builder'[f] =
                      (IF x.type = "T" THEN Some(x.value) ELSE x.value)
                /\ x = Opt(None) => builder'[f] = None
                /\ \A g \in (SbSetters \cup {"name"}) \ {f} :
                      builder'[g] = builder[g]]_vars
    /\ [](built # None =>
            \A f \in SbSetters :
                (CallIdx(f) # {} /\ calls[Max(CallIdx(f))].arg = Opt(None)) =>
                    built[1][f] =
                        (CASE f = "discovered_by" -> "Unknown"
                           [] f = "year_of_discovery" -> 2017
                           [] OTHER -> None))

\* discovered_by set to a value, then to None, then build.
C25_Witness ==
    /\ Len(calls) = 4
    /\ calls[2] = Call("discovered_by", Plain("Dr. Mann"))
    /\ calls[3] = Call("discovered_by", Opt(None))
    /\ calls[4].op = "build"
    /\ built # None
    /\ built[1].discovered_by = "Unknown"
    /\ built[1].year_of_discovery = 2017

\* ---------------------------------------------------------------- C26
\* A session whose caller goes on calling while an operation is callable.
FairSpec == Spec /\ WF_vars(Next)

\* The stage-by-stage conditions of C26.
SessionOpen ==
    /\ live => ENABLED Next
    /\ (live /\ builder.state = "NameBuilder") =>
          Len(calls) = 0 /\ ENABLED Name
    /\ (live /\ builder.state = "DiscoveredByBuilder") =>
          Len(calls) = 1 /\ ENABLED DiscoveredBy
    /\ (live /\ builder.state = "YearOfDiscoveryBuilder") =>
          Len(calls) = 2 /\ ENABLED YearOfDiscovery
    /\ builder.state = "OptionalParamsBuilder" =>
          /\ \A i \in 1..Len(MandatoryOrder) : calls[i].op = MandatoryOrder[i]
          /\ \A i \in 1..Len(calls) :
                calls[i].op \in MandatoryFields => i <= Len(MandatoryOrder)
          /\ live => ENABLED Build
    /\ ~live => (built # None /\ ~ENABLED Next)

\* C26: a session of the typestate builder never gets stuck: at every stage
\* reached from new() an operation is callable (the stage's transition
\* before the terminal stage, build in the terminal stage), the terminal
\* stage is reached by exactly the three mandatory transitions, build is
\* callable in every state of the terminal stage whatever optional calls
\* were made, and after build no operation is callable; so a session with
\* finitely many optional calls can always be completed by build.
C26_SessionNeverStuck == []SessionOpen /\ <>(built # None)

\* A terminal-stage builder with no optional field set after a copy: build
\* is callable.
C26_Witness ==
    /\ live
    /\ builder.state = "OptionalParamsBuilder"
    /\ Len(snapshots) = 1
    /\ \A f \in OptionalFields : builder.black_hole[f] = None
    /\ ENABLED Build

\* ------------------------------------------------------------------
\* The plain variant (src/1-plain/plain.rs): a program without a builder.
\* builder holds the locals of main, [gargantua, gargantua_clone], each
\* None until its let; live is TRUE while main runs; built is
\* Some(value returned by calc_event_horizon_radius); snapshots are the
\* lines printed; calls is the log of the steps of main.

\* f64 values that are computed with: decimal floating point numbers
\* [m, e] with a four-digit mantissa, standing for m * 10^(e - 3).  Every
\* operation truncates, so a result is below the exact value by less than
\* one part in a thousand per operation.
Dec(m, e) == [m |-> m, e |-> e]

RECURSIVE DecNorm(_, _)
DecNorm(p, e) ==
    IF p >= 10000 THEN DecNorm(p \div 10, e + 1)
    ELSE IF p < 1000 THEN DecNorm(p * 10, e - 1)
    ELSE Dec(p, e)

\* f64 * f64
DecMul(a, b) == DecNorm(a.m * b.m, a.e + b.e - 3)

\* 1.0 / f64
DecRecip(a) == DecNorm(10000000 \div a.m, 0 - 1 - a.e)

\* f64 / f64
DecDiv(a, b) == DecMul(a, DecRecip(b))

RECURSIVE DecPow(_, _)
DecPow(x, n) == IF n = 0 THEN Dec(1000, 0) ELSE DecMul(DecPow(x, n - 1), x)

\* f64::powf for an integral exponent: x^n, and 1 / x^(-n) when n < 0.
powf(x, n) == IF n >= 0 THEN DecPow(x, n) ELSE DecRecip(DecPow(x, 0 - n))

\* u64 as f64
as_f64(n) == DecNorm(n, 3)

\* f64 == f64 on the truncated values: two f64 values can be equal only
\* if their truncations differ by at most 200 units of the last digit (the
\* twelve operations of powf lose less than 12 parts in a thousand, which
\* is at most 120 units).
f64_eq(a, b) ==
    LET d == IF a.e = b.e THEN a.m - b.m
             ELSE IF a.e = b.e + 1 THEN 10 * a.m - b.m
             ELSE IF b.e = a.e + 1 THEN a.m - 10 * b.m
             ELSE 1000000
    IN  d \in -200..200

GRAVITATIONAL_CONSTANT == Dec(6674, 0 - 11)
SPEED_OF_LIGHT == 299792458

\* The record arguments of the plain variant.
PlainArgs ==
    [name : NameArgs,
     discovered_by : DiscoveredByArgs,
     year_of_discovery : {2038, 2400},
     mass : {Dec(1234, 3), Dec(1000, 0), Dec(1989, 30)},
     angular_momentum : {Dec(3874, 0)},
     electric_charge : {Dec(3436, 2)},
     classification : TypeArgs]

\* BlackHole::new of the plain variant
pl_new(n, d, m, a, e, y, c) ==
    [name |-> n,
     discovered_by |-> d,
     year_of_discovery |-> y,
     mass |-> m,
     angular_momentum |-> a,
     electric_charge |-> e,
     classification |-> c]

\* let check: f64 = 6.674_f64.powf(-11.0)
check == powf(Dec(6674, 0), 0 - 11)

\* assert_eq!: TRUE when the assertion passes, FALSE when it panics.
assert_eq(left, right) == f64_eq(left, right)

\* BlackHole::calc_event_horizon_radius: [panic |-> TRUE] when the
\* assertion fails, else the radius.  SPEED_OF_LIGHT.pow(2) does not
\* overflow u64; it is squared here after the conversion to f64.
calc_event_horizon_radius(self) ==
    IF ~assert_eq(check, GRAVITATIONAL_CONSTANT)
    THEN [panic |-> TRUE]
    ELSE [panic |-> FALSE,
          value |->
              DecDiv(DecMul(DecMul(Dec(2000, 0), GRAVITATIONAL_CONSTANT),
                            self.mass),
                     DecMul(as_f64(SPEED_OF_LIGHT), as_f64(SPEED_OF_LIGHT)))]

PlInit ==
    /\ builder = [gargantua |-> None, gargantua_clone |-> None]
    /\ live = TRUE
    /\ snapshots = <<>>
    /\ built = None
    /\ calls = <<>>

\* let gargantua = BlackHole { .. }
PlLiteral ==
    \E b \in PlainArgs :
        /\ live
        /\ Len(calls) = 0
        /\ builder' = [builder EXCEPT !.gargantua = Some(b)]
        /\ calls' = Append(calls, Call("BlackHole", b.name))
        /\ UNCHANGED <<live, snapshots, built>>

\* let gargantua_clone = BlackHole::new(..)
PlNew ==
    \E b \in PlainArgs :
        /\ live
        /\ Len(calls) = 1
        /\ builder' =
              [builder EXCEPT !.gargantua_clone =
                  Some(pl_new(b.name, b.discovered_by, b.mass,
                              b.angular_momentum, b.electric_charge,
                              b.year_of_discovery, b.classification))]
        /\ calls' = Append(calls, Call("new", b.name))
        /\ UNCHANGED <<live, snapshots, built>>

\* println!(.., gargantua.name, gargantua.calc_event_horizon_radius()) and
\* the end of main: the line is printed when the call returns; a panic
\* inside the call ends main without it.
PlPrintRadius ==
    LET r == calc_event_horizon_radius(builder.gargantua[1])
    IN  /\ live
        /\ Len(calls) = 2
        /\ IF r.panic
           THEN /\ calls' = calls \o <<Call("calc_event_horizon_radius", None),
                                       Call("panic", <<check,
                                                       GRAVITATIONAL_CONSTANT>>)>>
                /\ UNCHANGED <<snapshots, built>>
           ELSE /\ calls' = Append(calls,
                                   Call("calc_event_horizon_radius", None))
                /\ built' = Some(r.value)
                /\ snapshots' =
                      Append(snapshots,
                             [name |-> builder.gargantua[1].name,
                              radius |-> r.value])
        /\ live' = FALSE
        /\ UNCHANGED builder

PlNext ==
    \/ PlLiteral
    \/ PlNew
    \/ PlPrintRadius

PlSpec == PlInit /\ [][PlNext]_vars

\* ---------------------------------------------------------------- C27
\* C27: in the plain variant the assertion of calc_event_horizon_radius
\* that 6.674 raised to the power -11 equals GRAVITATIONAL_CONSTANT holds,
\* so the function returns a radius for every mass and main runs to
\* completion without panicking, printing the radius.
C27_AssertionHoldsMainCompletes ==
    /\ builder.gargantua # None =>
          /\ assert_eq(check, GRAVITATIONAL_CONSTANT)
          /\ ~calc_event_horizon_radius(builder.gargantua[1]).panic
    /\ CallIdx("panic") = {}
    /\ ~live => (built # None /\ Len(snapshots) = 1)

====
